---- MODULE Spec2Model ----
(***************************************************************************)
(* Flight tracking page (src/src/app/page.tsx, component LeaderHomecoming). *)
(*                                                                         *)
(* The component holds four pieces of React state (flightData, loading,    *)
(* error, lastUpdate).  fetchFlightData is started on mount and by a 30 s   *)
(* interval timer; after its awaits it scans the feed for the tracked       *)
(* flight and either replaces flightData or sets an error message.         *)
(* calculateETA is evaluated on every render from flightData.              *)
(*                                                                         *)
(* Encoding.                                                               *)
(*   - A nullable value is Null (<<>>) or Some(v) (<<v>>).                  *)
(*   - A string that the code inspects character by character (a callsign)  *)
(*     is a sequence of one-character strings.                             *)
(*   - Latitudes and longitudes are integers in units of 1/10000 degree.    *)
(*   - Distances are integers in units of 100 m.                           *)
(*   - flightData.progress is a rational [num, den] with den > 0.          *)
(***************************************************************************)
EXTENDS Integers, Sequences, FiniteSets

VARIABLES
    flightData,   \* useState<FlightData>
    loading,      \* useState(true)
    error,        \* useState<string | null>(null)
    lastUpdate,   \* useState<Date | null>(null): Null or Some("Date")
    inflight,     \* number of fetchFlightData calls suspended at an await
    pc,           \* where the running continuation of fetchFlightData stands
    states,       \* data.states of the running continuation
    i,            \* index of the next record of the for..of loop (1-based)
    targetFlight, \* local variable targetFlight of the running continuation
    outcome,      \* how the most recently completed poll cycle ended
    lastTarget,   \* the targetFlight the most recently completed cycle ended with
    overtaken,    \* per suspended call, in start order: has a call started
                  \* after it already replaced flightData?
    stale         \* was the most recently completed cycle's call overtaken?

vars == <<flightData, loading, error, lastUpdate, inflight, pc, states, i,
          targetFlight, outcome, lastTarget, overtaken, stale>>

react == <<flightData, loading, error, lastUpdate>>

-----------------------------------------------------------------------------
(* Bounds of the model.                                                     *)

\* longest feed (data.states) a response carries
MaxFeed == 2

\* most fetchFlightData calls awaiting a response at the same time
MaxInFlight == 3

-----------------------------------------------------------------------------
(* JavaScript values.                                                       *)

Null == <<>>

Some(v) == <<v>>

\* truthiness of a number | null: null and 0 are falsy
TruthyNum(x) == x # Null /\ x[1] # 0

\* truthiness of a string | null: null and "" are falsy
TruthyStr(s) == s # Null /\ Len(s[1]) > 0

\* String.prototype.trim on a sequence of characters
RECURSIVE TrimStart(_)
TrimStart(s) ==
    IF s # <<>> /\ Head(s) = " " THEN TrimStart(Tail(s)) ELSE s

RECURSIVE TrimEnd(_)
TrimEnd(s) ==
    IF s # <<>> /\ s[Len(s)] = " " THEN TrimEnd(SubSeq(s, 1, Len(s) - 1)) ELSE s

Trim(s) == TrimEnd(TrimStart(s))

\* String.prototype.startsWith
StartsWith(s, p) == Len(s) >= Len(p) /\ SubSeq(s, 1, Len(p)) = p

\* String.prototype.includes
Includes(s, sub) ==
    \E k \in 0..(Len(s) - Len(sub)) : SubSeq(s, k + 1, k + Len(sub)) = sub

\* Math.round(n / d) for n >= 0, d > 0: the nearest integer, halves up
RoundDiv(n, d) == (2 * n + d) \div (2 * d)

\* the least integer >= h * d / 120, for h, d >= 0; h * d itself is never
\* formed, so that it may exceed 32 bits
CeilOver120(h, d) == h * (d \div 120) + ((h * (d % 120) + 119) \div 120)

-----------------------------------------------------------------------------
(* Configuration of the component.                                          *)

departure == [lat |-> 514700, lon |-> -4543]

arrival == [lat |-> 238103, lon |-> 904125]

\* cruise-altitude threshold of the selector, metres
CruiseAltitude == 6000

BG202 == <<"B", "G", "2", "0", "2">>

BBC202 == <<"B", "B", "C", "2", "0", "2">>

BBC == <<"B", "B", "C">>

Unknown == <<"U", "n", "k", "n", "o", "w", "n">>

\* messages passed to setError
MsgEmpty == "No Biman Bangladesh flights currently tracked - BG202 may not be in the air"

MsgNoFlight == "BG202 not currently in flight - Flight may be scheduled later"

\* the HTTP failure reported with the words of the no-match case
MsgNotOkConflated == MsgNoFlight

MsgNotOk == "Failed to fetch flight data"

MsgUnknown == "Unknown error occurred"

\* messages of the errors the runtime throws from fetch() and response.json()
RuntimeMessages == {"Failed to fetch", "Unexpected end of JSON input"}

\* an initial value that already claims a live fix
DefaultLive ==
    [currentLat    |-> Null,
     currentLon    |-> Null,
     altitude      |-> 0,
     speed         |-> 0,
     progress      |-> [num |-> 0, den |-> 1],
     currentRegion |-> "Searching...",
     isLive        |-> TRUE,
     callsign      |-> Null,
     onGround      |-> Null]

\* useState initial value of flightData
DefaultFlightData ==
    [currentLat    |-> Null,
     currentLon    |-> Null,
     altitude      |-> 0,
     speed         |-> 0,
     progress      |-> [num |-> 0, den |-> 1],
     currentRegion |-> "Searching...",
     isLive        |-> FALSE,
     callsign      |-> Null,
     onGround      |-> Null]

-----------------------------------------------------------------------------
(* The feed.  A record of data.states, with the OpenSky field names of the  *)
(* entries the code reads: [1] callsign, [5] longitude, [6] latitude,       *)
(* [7] baro_altitude, [8] on_ground, [9] velocity.                          *)

Rec(cs, lat, lon, alt, og, vel) ==
    [callsign |-> cs, longitude |-> lon, latitude |-> lat,
     baro_altitude |-> alt, on_ground |-> og, velocity |-> vel]

\* callsigns as the feed pads them
CsBG202 == Some(<<"B", "G", "2", "0", "2", " ", " ", " ">>)

CsBBC202 == Some(<<"B", "B", "C", "2", "0", "2", " ", " ">>)

CsBBC777 == Some(<<"B", "B", "C", "7", "7", "7", " ", " ">>)

CsBBC303 == Some(<<" ", "B", "B", "C", "3", "0", "3", " ">>)

CsOther == Some(<<"U", "A", "E", "5", "B", "B", "C">>)

\* an airborne record at cruise altitude over Istanbul (41.0 N, 29.0 E)
Cruising(cs, vel) == Rec(cs, Some(410000), Some(290000), Some(10000), FALSE, vel)

\* the same record with one field degraded
Degraded(r) ==
    { [r EXCEPT !.on_ground = TRUE],
      [r EXCEPT !.longitude = Some(0)],
      [r EXCEPT !.baro_altitude = Some(CruiseAltitude)],
      [r EXCEPT !.baro_altitude = Null] }

GoodRecords ==
    { Cruising(CsBG202, Some(236)),
      Rec(CsBBC202, Some(238000), Some(950000), Some(10000), FALSE, Some(250)),
      Cruising(CsBBC777, Some(250)),
      Rec(CsBBC303, Some(238000), Some(950000), Some(6001), FALSE, Null),
      Cruising(CsOther, Some(250)),
      Cruising(Null, Some(250)) }

Records ==
    GoodRecords
      \cup Degraded(Cruising(CsBG202, Some(236)))
      \cup Degraded(Cruising(CsBBC777, Some(250)))
      \cup { [Cruising(CsBG202, Some(236)) EXCEPT !.latitude = Null],
             [Cruising(CsBG202, Some(236)) EXCEPT !.longitude = Null],
             [Cruising(CsBG202, Some(236)) EXCEPT !.latitude = Some(0)],
             [Cruising(CsBG202, Some(236)) EXCEPT !.baro_altitude = Some(5000)] }

\* the feeds a response can carry: every sequence of at most MaxFeed records
Feeds == UNION { [1..n -> Records] : n \in 0..MaxFeed }

-----------------------------------------------------------------------------
(* Geo math.                                                                *)

\* calculateDistance evaluated by the source's haversine formula (R = 6371)
\* in IEEE double arithmetic and rounded to 100 m, at the coordinate pairs
\* the model's records can produce (a null coordinate counts as 0 in
\* JavaScript arithmetic)
DistanceTable ==
    { <<514700, -4543, 238103, 904125, 80182>>,
      <<514700, -4543, 410000, 290000, 25233>>,
      <<514700, -4543, 238000, 950000, 83219>>,
      <<514700, -4543, 410000, 0, 11647>>,
      <<514700, -4543, 0, 290000, 63550>>,
      <<410000, 290000, 238103, 904125, 59455>>,
      <<238000, 950000, 238103, 904125, 4667>>,
      <<410000, 0, 238103, 904125, 83326>>,
      <<0, 290000, 238103, 904125, 71207>> }

calculateDistance(lat1, lon1, lat2, lon2) ==
    (CHOOSE t \in DistanceTable :
        t[1] = lat1 /\ t[2] = lon1 /\ t[3] = lat2 /\ t[4] = lon2)[5]

\* the numeric value JavaScript arithmetic gives a number | null
Num(x) == IF x = Null THEN 0 ELSE x[1]

getCurrentRegion(lat, lon) ==
    IF ~TruthyNum(lat) \/ ~TruthyNum(lon) THEN "Unknown"
    ELSE IF lon[1] < 100000 THEN "Western Europe"
    ELSE IF lon[1] < 300000 THEN "Eastern Europe"
    ELSE IF lon[1] < 450000 THEN "Turkey/Middle East"
    ELSE IF lon[1] < 600000 THEN "Iran"
    ELSE IF lon[1] < 700000 THEN "Central Asia"
    ELSE IF lon[1] < 800000 THEN "Pakistan"
    ELSE IF lon[1] < 880000 THEN "India"
    ELSE "Bangladesh"

-----------------------------------------------------------------------------
(* The selector: the for..of loop of fetchFlightData.                       *)

\* const callsign = state[1] ? state[1].trim() : ""
CallsignOf(state) ==
    IF TruthyStr(state.callsign) THEN Trim(state.callsign[1]) ELSE <<>>

\* altitude > 6000, false for null
AboveCruise(alt) == alt # Null /\ alt[1] > CruiseAltitude

\* the filter without its on-ground test
EligibleIgnoresGround(state) ==
    /\ TruthyNum(state.latitude)
    /\ TruthyNum(state.longitude)
    /\ AboveCruise(state.baro_altitude)

\* the filter without its latitude and longitude tests
EligibleIgnoresPosition(state) ==
    /\ ~state.on_ground
    /\ AboveCruise(state.baro_altitude)

\* !onGround && lat && lon && altitude > 6000
Eligible(state) ==
    /\ ~state.on_ground
    /\ TruthyNum(state.latitude)
    /\ TruthyNum(state.longitude)
    /\ AboveCruise(state.baro_altitude)

\* callsign.includes("BG202") || callsign.includes("BBC202")
IsExact(state) ==
    Includes(CallsignOf(state), BG202) \/ Includes(CallsignOf(state), BBC202)

\* callsign.startsWith("BBC")
IsFallback(state) == StartsWith(CallsignOf(state), BBC)

\* one iteration of the loop: the new targetFlight and whether it breaks
LoopBody(target, state) ==
    IF Eligible(state) /\ IsExact(state)
    THEN [target |-> Some(state), brk |-> TRUE]
    ELSE IF Eligible(state) /\ IsFallback(state) /\ target = Null
    THEN [target |-> Some(state), brk |-> FALSE]
    ELSE [target |-> target, brk |-> FALSE]

\* the whole loop from record k on, with targetFlight = target so far
RECURSIVE ScanFrom(_, _, _)
ScanFrom(feed, k, target) ==
    IF k > Len(feed) THEN target
    ELSE LET step == LoopBody(target, feed[k])
         IN  IF step.brk THEN step.target ELSE ScanFrom(feed, k + 1, step.target)

Scan(feed) == ScanFrom(feed, 1, Null)

-----------------------------------------------------------------------------
(* The derived state.                                                       *)

\* Math.min on two rationals
MinRat(p, q) == IF p.num * q.den <= q.num * p.den THEN p ELSE q

\* the ratio without Math.min
ProgressUnclamped(lat, lon) ==
    [num |-> calculateDistance(departure.lat, departure.lon, Num(lat), Num(lon)),
     den |-> calculateDistance(departure.lat, departure.lon,
                               arrival.lat, arrival.lon)]

\* Math.min(distanceFromDeparture / totalDistance, 1)
Progress(lat, lon) ==
    MinRat([num |-> calculateDistance(departure.lat, departure.lon, Num(lat), Num(lon)),
            den |-> calculateDistance(departure.lat, departure.lon,
                                      arrival.lat, arrival.lon)],
           [num |-> 1, den |-> 1])

\* baroAltitude ? Math.round(baroAltitude * 3.28084) : 0
AltitudeFeet(baro) ==
    IF TruthyNum(baro) THEN RoundDiv(baro[1] * 82021, 25000) ELSE 0

\* velocity ? Math.round(velocity * 2.23694) : 0
SpeedMph(velocity) ==
    IF TruthyNum(velocity) THEN RoundDiv(velocity[1] * 111847, 50000) ELSE 0

\* callsign?.trim() || "Unknown"
DisplayCallsign(cs) ==
    IF cs # Null /\ Trim(cs[1]) # <<>> THEN Trim(cs[1]) ELSE Unknown

\* the object passed to setFlightData
BuildFlightData(target) ==
    [currentLat    |-> target.latitude,
     currentLon    |-> target.longitude,
     altitude      |-> AltitudeFeet(target.baro_altitude),
     speed         |-> SpeedMph(target.velocity),
     progress      |-> Progress(target.latitude, target.longitude),
     currentRegion |-> getCurrentRegion(target.latitude, target.longitude),
     isLive        |-> TRUE,
     callsign      |-> Some(DisplayCallsign(target.callsign)),
     onGround      |-> Some(target.on_ground)]

\* Math.round(60 * rem / den) for 0 <= rem < den: the number of m in 1..60
\* with 60 * rem / den >= m - 1/2
RoundMinutes(rem, den) ==
    Cardinality({ m \in 1..60 : rem >= CeilOver120(2 * m - 1, den) })

\* calculateETA, evaluated on every render; hoursRemaining is the rational
\* (distance * 10000) / (speed * 160934), distance being in units of 100 m
calculateETA ==
    IF ~TruthyNum(flightData.currentLat) \/ flightData.speed = 0
    THEN [hours |-> 0, minutes |-> 0]
    ELSE LET distanceToDestination ==
                 calculateDistance(Num(flightData.currentLat),
                                   Num(flightData.currentLon),
                                   arrival.lat, arrival.lon)
             num == distanceToDestination * 10000
             den == flightData.speed * 160934
             hours == num \div den
         IN  [hours |-> hours, minutes |-> RoundMinutes(num % den, den)]

-----------------------------------------------------------------------------
(* fetchFlightData: how a poll cycle ends.                                  *)

\* a cycle that ends without a flight: setError(msg); setLoading(false)
FailResets(msg, how) ==
    /\ error' = Some(msg)
    /\ loading' = FALSE
    /\ flightData' = DefaultFlightData
    /\ lastUpdate' = lastUpdate
    /\ outcome' = how
    /\ lastTarget' = Null

Fail(msg, how) ==
    /\ error' = Some(msg)
    /\ loading' = FALSE
    /\ UNCHANGED <<flightData, lastUpdate>>
    /\ outcome' = how
    /\ lastTarget' = Null

\* the catch block: err is a thrown value
Catch(err) ==
    IF err.isError THEN Fail(err.message, "fetch_error")
    ELSE Fail(MsgUnknown, "fetch_error")

\* what the awaits can throw: an Error of the runtime, or another value
Thrown ==
    { [isError |-> TRUE, message |-> m] : m \in RuntimeMessages }
      \cup { [isError |-> FALSE, message |-> ""] }

\* a setter that drops the value of a call that a later call has overtaken
SetFlightDataUnlessStale(value) ==
    flightData' = IF stale' THEN flightData ELSE value

\* setFlightData(value): the state is replaced by the value as a whole
SetFlightData(value) == flightData' = value

\* the statements after the loop, with targetFlight = target
SettleEffect(target) ==
    IF target = Null
    THEN Fail(MsgNoFlight, "no_match")
    ELSE IF TruthyNum(target[1].latitude) /\ TruthyNum(target[1].longitude)
    THEN /\ SetFlightData(BuildFlightData(target[1]))
         /\ lastUpdate' = Some("Date")
         /\ loading' = FALSE
         /\ error' = Null
         /\ outcome' = "ok"
         /\ lastTarget' = target
    ELSE /\ UNCHANGED react
         /\ outcome' = "unplaced"
         /\ lastTarget' = target

-----------------------------------------------------------------------------
(* Specification Spec: the component under any sequence of poll cycles.     *)
(* The code after the last await runs to completion, so a cycle's end is    *)
(* one step.                                                                *)

scan == <<pc, states, i, targetFlight>>

\* the suspended call of start rank k resumes: nothing cancels it and
\* nothing orders it after the calls started before it
Resuming(k) ==
    /\ inflight' = inflight - 1
    /\ stale' = overtaken[k]

\* the call of start rank k has run to its end: when it replaced flightData,
\* every call started before it and still suspended is overtaken
Resumed(k) ==
    overtaken' = [j \in 1..(inflight - 1) |->
                     IF j < k THEN overtaken[j] \/ outcome' = "ok"
                     ELSE overtaken[j + 1]]

Init ==
    /\ flightData = DefaultFlightData
    /\ loading = TRUE
    /\ error = Null
    /\ lastUpdate = Null
    /\ inflight = 0
    /\ pc = "idle"
    /\ states = <<>>
    /\ i = 1
    /\ targetFlight = Null
    /\ outcome = "none"
    /\ lastTarget = Null
    /\ overtaken = <<>>
    /\ stale = FALSE

\* the effect on mount, or the interval timer: fetchFlightData runs up to
\* its first await
StartPoll ==
    /\ pc = "idle"
    /\ inflight < MaxInFlight
    /\ inflight' = inflight + 1
    /\ overtaken' = Append(overtaken, FALSE)
    /\ UNCHANGED <<react, scan, outcome, lastTarget, stale>>

\* fetch() rejects
FetchRejects ==
    /\ pc = "idle"
    /\ inflight > 0
    /\ \E k \in 1..inflight :
          /\ Resuming(k)
          /\ (\E err \in Thrown : Catch(err))
          /\ Resumed(k)
    /\ UNCHANGED scan

\* !response.ok: throw new Error("Failed to fetch flight data")
NotOk ==
    /\ pc = "idle"
    /\ inflight > 0
    /\ \E k \in 1..inflight :
          /\ Resuming(k)
          /\ Catch([isError |-> TRUE, message |-> MsgNotOk])
          /\ Resumed(k)
    /\ UNCHANGED scan

\* response.json() rejects
JsonRejects ==
    /\ pc = "idle"
    /\ inflight > 0
    /\ \E k \in 1..inflight :
          /\ Resuming(k)
          /\ (\E err \in Thrown : Catch(err))
          /\ Resumed(k)
    /\ UNCHANGED scan

\* !data.states || data.states.length === 0
EmptyStates ==
    /\ pc = "idle"
    /\ inflight > 0
    /\ \E k \in 1..inflight :
          /\ Resuming(k)
          /\ Fail(MsgEmpty, "empty")
          /\ Resumed(k)
    /\ UNCHANGED scan

\* what the loop leaves in targetFlight, over every non-empty feed
ScanResults == { Scan(feed) : feed \in Feeds \ {<<>>} }

\* a response with a non-empty feed: the loop and the statements after it
Process ==
    /\ pc = "idle"
    /\ inflight > 0
    /\ \E k \in 1..inflight :
          /\ Resuming(k)
          /\ (\E target \in ScanResults : SettleEffect(target))
          /\ Resumed(k)
    /\ UNCHANGED scan

Next ==
    \/ StartPoll
    \/ FetchRejects
    \/ NotOk
    \/ JsonRejects
    \/ EmptyStates
    \/ Process

Spec == Init /\ [][Next]_vars

-----------------------------------------------------------------------------
(* Specification SpecScan: one poll cycle of the freshly mounted component, *)
(* from the moment response.json() has resolved, one loop iteration a step. *)

InitScan ==
    /\ flightData = DefaultFlightData
    /\ loading = TRUE
    /\ error = Null
    /\ lastUpdate = Null
    /\ inflight = 0
    /\ pc = "received"
    /\ states \in Feeds
    /\ i = 1
    /\ targetFlight = Null
    /\ outcome = "none"
    /\ lastTarget = Null
    /\ overtaken = <<>>
    /\ stale = FALSE

\* if (!data.states || data.states.length === 0) ...; let targetFlight = null
CheckStates ==
    /\ pc = "received"
    /\ UNCHANGED <<overtaken, stale>>
    /\ IF states = <<>>
       THEN /\ Fail(MsgEmpty, "empty")
            /\ pc' = "done"
       ELSE /\ pc' = "scan"
            /\ UNCHANGED <<react, outcome, lastTarget>>
    /\ targetFlight' = Null
    /\ i' = 1
    /\ UNCHANGED <<states, inflight>>

\* one iteration of for (const state of data.states)
ScanStep ==
    /\ pc = "scan"
    /\ i <= Len(states)
    /\ LET step == LoopBody(targetFlight, states[i])
       IN  /\ targetFlight' = step.target
           /\ pc' = IF step.brk \/ i = Len(states) THEN "settle" ELSE "scan"
    /\ i' = i + 1
    /\ UNCHANGED <<react, states, inflight, outcome, lastTarget, overtaken, stale>>

\* the statements after the loop
Settle ==
    /\ pc = "settle"
    /\ UNCHANGED <<overtaken, stale>>
    /\ SettleEffect(targetFlight)
    /\ pc' = "done"
    /\ UNCHANGED <<states, i, targetFlight, inflight>>

NextScan ==
    \/ CheckStates
    \/ ScanStep
    \/ Settle

SpecScan == InitScan /\ [][NextScan]_vars

\* the loop taken step by step computes Scan
ScanAgrees == pc \in {"settle", "done"} /\ states # <<>> => targetFlight = Scan(states)

-----------------------------------------------------------------------------
(* Properties of the selector, under SpecScan.                              *)

ScanDone == pc = "done"

\* a record with the fields present, airborne and above the threshold: null
\* is the only absent coordinate, 0 is a coordinate
PresentEligible(state) ==
    /\ ~state.on_ground
    /\ state.latitude # Null
    /\ state.longitude # Null
    /\ AboveCruise(state.baro_altitude)

\* C1: when the feed holds an eligible record (airborne, latitude and
\* longitude present, altitude above the threshold) whose callsign contains
\* BG202 or BBC202, the finished scan has selected an exact-match record,
\* wherever the exact-match and the fallback records stand in the feed.
C1_ExactMatchWins ==
    ScanDone /\ (\E k \in DOMAIN states :
                    PresentEligible(states[k]) /\ IsExact(states[k]))
        => targetFlight # Null /\ IsExact(targetFlight[1])

\* What the code does give for C1: the same with the filter as the code
\* evaluates it (a coordinate of 0 counts as missing).
ExactMatchWinsAmongFiltered ==
    ScanDone /\ (\E k \in DOMAIN states : Eligible(states[k]) /\ IsExact(states[k]))
        => targetFlight # Null /\ IsExact(targetFlight[1])

\* the smallest index of a record satisfying both tests, 0 when there is none
FirstIndex(feed, Test1(_), Test2(_)) ==
    IF \E k \in DOMAIN feed : Test1(feed[k]) /\ Test2(feed[k])
    THEN CHOOSE k \in DOMAIN feed :
             /\ Test1(feed[k]) /\ Test2(feed[k])
             /\ \A j \in 1..(k - 1) : ~(Test1(feed[j]) /\ Test2(feed[j]))
    ELSE 0

\* C2: when the feed holds no eligible exact-match record, the finished scan
\* has selected the eligible record of smallest feed index whose trimmed
\* callsign starts with BBC.
C2_FirstFallbackWins ==
    ScanDone /\ ~(\E k \in DOMAIN states :
                     PresentEligible(states[k]) /\ IsExact(states[k]))
             /\ FirstIndex(states, PresentEligible, IsFallback) # 0
        => targetFlight = Some(states[FirstIndex(states, PresentEligible, IsFallback)])

\* What the code does give for C2: the first fallback among the records the
\* code's filter keeps, and a latched fallback is replaced by an exact match
\* only.
FirstFallbackWinsAmongFiltered ==
    ScanDone /\ ~(\E k \in DOMAIN states : Eligible(states[k]) /\ IsExact(states[k]))
             /\ FirstIndex(states, Eligible, IsFallback) # 0
        => targetFlight = Some(states[FirstIndex(states, Eligible, IsFallback)])

FallbackLatched ==
    [][targetFlight # Null /\ targetFlight' # targetFlight
          => targetFlight' # Null /\ IsExact(targetFlight'[1])]_vars

\* on the ground, or below 6000 m (a null altitude included)
GroundedOrLow(state) ==
    \/ state.on_ground
    \/ state.baro_altitude = Null
    \/ state.baro_altitude[1] < CruiseAltitude

\* C3: the selected record is never on the ground, without a latitude or a
\* longitude, or below 6000 m; and when every record of the feed is on the
\* ground or below 6000 m, or the feed is empty, the cycle ends with no
\* selection and flightData as it was.
C3_NoIneligibleSelected ==
    /\ targetFlight # Null =>
          /\ ~GroundedOrLow(targetFlight[1])
          /\ targetFlight[1].latitude # Null
          /\ targetFlight[1].longitude # Null
    /\ ScanDone /\ (\A k \in DOMAIN states : GroundedOrLow(states[k])) =>
          /\ targetFlight = Null
          /\ flightData = DefaultFlightData
          /\ outcome \in {"empty", "no_match"}

\* a finished scan of a feed of grounded or low records, one of them the
\* tracked flight itself
C3_Witness ==
    /\ ScanDone
    /\ states # <<>>
    /\ \A k \in DOMAIN states : GroundedOrLow(states[k])
    /\ \E k \in DOMAIN states : IsExact(states[k]) /\ states[k].on_ground
    /\ \E k \in DOMAIN states : IsExact(states[k]) /\ states[k].baro_altitude = Null

\* C4: an airborne record with numeric latitude and longitude (0 included)
\* and an altitude of 6000 m or more whose callsign is an exact match is
\* eligible: a feed that holds one never ends with no selection.
C4_OnlyStatedExclusions ==
    ScanDone /\ (\E k \in DOMAIN states :
                    /\ ~states[k].on_ground
                    /\ states[k].latitude # Null
                    /\ states[k].longitude # Null
                    /\ states[k].baro_altitude # Null
                    /\ states[k].baro_altitude[1] >= CruiseAltitude
                    /\ IsExact(states[k]))
        => targetFlight # Null

-----------------------------------------------------------------------------
(* Properties of the component state, under Spec.                           *)

\* the ways a cycle ends without a flight
Failures == {"fetch_error", "empty", "no_match"}

\* C5: isLive is true only if the most recently completed poll cycle found a
\* matching record.
C5_LiveOnlyAfterMatch == flightData.isLive => outcome = "ok"

\* C6: isLive = true implies that currentLat and currentLon are both
\* non-null.
C6_LiveHasPosition ==
    flightData.isLive =>
        flightData.currentLat # Null /\ flightData.currentLon # Null

\* a cycle has stored a live fix
C6_Witness ==
    /\ outcome = "ok"
    /\ flightData.isLive
    /\ flightData.currentLat = Some(410000)

\* C7: a poll cycle that fails (fetch throws, non-success status, empty
\* states, no matching flight) leaves flightData as it was before the cycle;
\* of the component state only error and loading change.
C7_FailureKeepsFlightData ==
    [][inflight' < inflight /\ outcome' \in Failures
          => flightData' = flightData /\ lastUpdate' = lastUpdate]_vars

\* a cycle has failed after an earlier one stored a fix, and the fix is
\* still there
C7_Witness ==
    /\ outcome \in Failures
    /\ flightData.isLive
    /\ error # Null

\* C8: the error set by a fetch failure is never null and never the message
\* of a fetch that returned data without a matching flight, which is not
\* null either.
C8_DistinctMessages ==
    /\ outcome = "fetch_error" =>
          error \notin {Null, Some(MsgNoFlight), Some(MsgEmpty)}
    /\ outcome = "no_match" => error = Some(MsgNoFlight) /\ error # Null

\* the last cycle ended in a non-success HTTP status
C8_Witness == outcome = "fetch_error" /\ error = Some(MsgNotOk)

\* C9: the ETA has hours >= 0 and minutes in 0..59; a remainder that rounds
\* to 60 minutes carries into hours.
C9_MinutesBelowSixty ==
    /\ calculateETA.hours >= 0
    /\ calculateETA.minutes \in 0..59

\* C10: flightData.progress lies in [0, 1]; it is 0 before the first
\* successful cycle.
C10_ProgressInUnitInterval ==
    /\ flightData.progress.den > 0
    /\ flightData.progress.num >= 0
    /\ flightData.progress.num <= flightData.progress.den
    /\ ~flightData.isLive => flightData.progress.num = 0

\* a fix beyond the arrival point (95 E), its progress clamped to 1
C10_Witness ==
    /\ flightData.isLive
    /\ flightData.currentLon = Some(950000)
    /\ flightData.progress.num = flightData.progress.den

-----------------------------------------------------------------------------
(* Properties of overlapping and completed poll cycles, under Spec.         *)

\* C11: overlapping calls are neither cancelled nor ordered; a call that
\* ends with a flight replaces flightData as one whole value, so the value
\* on display is the one built by the call that resumed last with a flight,
\* also when a call started after it had replaced flightData before.
C11_LastResolvedWins ==
    /\ outcome = "ok" =>
          /\ lastTarget # Null
          /\ flightData = BuildFlightData(lastTarget[1])
    /\ \/ flightData = DefaultFlightData
       \/ \E r \in Records : flightData = BuildFlightData(r)

\* both of two overlapping calls are over; the one started first resumed
\* last, after the other had replaced flightData, and its value is on display
C11_Witness ==
    /\ inflight = 0
    /\ stale
    /\ outcome = "ok"
    /\ flightData = BuildFlightData(lastTarget[1])

\* C12: a completed cycle leaves loading false, and error null exactly when
\* the selector returned a record, flightData then being built from that
\* record: no cycle selects a record and leaves the state untouched.
C12_CycleEndsSettled ==
    outcome # "none" =>
        /\ loading = FALSE
        /\ error = Null <=> lastTarget # Null
        /\ lastTarget # Null =>
              /\ outcome = "ok"
              /\ flightData = BuildFlightData(lastTarget[1])
        /\ outcome # "unplaced"

\* a cycle that selected a record is over: the fix is stored, no error shows
C12_Witness ==
    /\ outcome = "ok"
    /\ lastTarget # Null
    /\ error = Null
    /\ loading = FALSE
    /\ lastUpdate # Null

====
